---- MODULE Spec2Model ----
(***************************************************************************)
(* The script interpreter of AutosaurusAPI: ScriptEngine                   *)
(* (app/core/script_engine.py) driving ActionExecutor                      *)
(* (app/core/action_executor.py), entered through run_script               *)
(* (app/api/scripts.py).                                                   *)
(*                                                                         *)
(* Python values are records [t, s, n]: t is the type tag, s the text of a *)
(* str (a sequence of one-character strings), n the number of an int or    *)
(* bool.  An Optional[str] that is None or "" is falsy in every test the   *)
(* code makes of it; names (save_as, loop_variable, dictionary keys) are   *)
(* plain character sequences with << >> for None or "".                    *)
(***************************************************************************)
EXTENDS Integers, Sequences, FiniteSets, TLC

(* ------------------------------ values -------------------------------- *)

NoneV == [t |-> "none", s |-> << >>, n |-> 0]
IntV(k) == [t |-> "int", s |-> << >>, n |-> k]
StrV(cs) == [t |-> "str", s |-> cs, n |-> 0]
BoolV(b) == [t |-> "bool", s |-> << >>, n |-> IF b THEN 1 ELSE 0]

\* 10 ** 309, an int a JSON document can write and no float can hold: s is
\* its decimal text
HugeV == [t |-> "huge", s |-> [i \in 1..310 |-> IF i = 1 THEN "1" ELSE "0"], n |-> 0]

\* Python truthiness: bool(v)
Truthy(v) ==
    CASE v.t = "none" -> FALSE
      [] v.t = "int" -> v.n # 0
      [] v.t = "bool" -> v.n = 1
      [] OTHER -> v.s # << >>

Digits == <<"0", "1", "2", "3", "4", "5", "6", "7", "8", "9">>

RECURSIVE NatStr(_)
NatStr(k) ==
    IF k < 10 THEN <<Digits[k + 1]>>
    ELSE NatStr(k \div 10) \o <<Digits[(k % 10) + 1]>>

\* str(v)
PyStr(v) ==
    CASE v.t = "none" -> <<"N", "o", "n", "e">>
      [] v.t = "int" -> IF v.n < 0 THEN <<"-">> \o NatStr(0 - v.n) ELSE NatStr(v.n)
      [] v.t = "bool" -> IF v.n = 1 THEN <<"T", "r", "u", "e">>
                         ELSE <<"F", "a", "l", "s", "e">>
      [] OTHER -> v.s

\* s[k-1:].startswith(p)
StartsAt(s, p, k) ==
    /\ k + Len(p) - 1 <= Len(s)
    /\ SubSeq(s, k, k + Len(p) - 1) = p

\* p in s
Contains(s, p) == \E k \in 1..(Len(s) - Len(p) + 1) : StartsAt(s, p, k)

\* s.replace(old, new), old non-empty: non-overlapping, left to right
RECURSIVE Replace(_, _, _)
Replace(s, old, new) ==
    IF Len(s) < Len(old) THEN s
    ELSE IF StartsAt(s, old, 1)
         THEN new \o Replace(SubSeq(s, Len(old) + 1, Len(s)), old, new)
         ELSE <<Head(s)>> \o Replace(Tail(s), old, new)

\* float(v) raises OverflowError ("int too large to convert to float")
FloatOverflow(v) == v.t = "huge"

\* float(v) over the numerals the model's alphabet can write: [+-]digits.
\* << >> is ValueError/TypeError, <<n>> the number.
IsDigit(c) == \E d \in 1..10 : Digits[d] = c
DigitVal(c) == (CHOOSE d \in 1..10 : Digits[d] = c) - 1

RECURSIVE DigitsVal(_, _)
DigitsVal(s, acc) ==
    IF s = << >> THEN acc ELSE DigitsVal(Tail(s), acc * 10 + DigitVal(Head(s)))

ParseFloat(v) ==
    CASE v.t \in {"none", "huge"} -> << >>
      [] v.t \in {"int", "bool"} -> <<v.n>>
      [] OTHER ->
           LET neg == v.s # << >> /\ Head(v.s) = "-"
               sgn == v.s # << >> /\ Head(v.s) \in {"-", "+"}
               body == IF sgn THEN Tail(v.s) ELSE v.s
           IN  IF body # << >> /\ \A i \in 1..Len(body) : IsDigit(body[i])
               THEN <<IF neg THEN 0 - DigitsVal(body, 0) ELSE DigitsVal(body, 0)>>
               ELSE << >>

(* ----------------- dict: insertion-ordered name -> value --------------- *)

HasKey(d, k) == \E i \in 1..Len(d) : d[i].k = k

\* d.get(k)
Get(d, k) ==
    IF HasKey(d, k) THEN d[CHOOSE i \in 1..Len(d) : d[i].k = k].v ELSE NoneV

\* d[k] = v
Put(d, k, v) ==
    IF HasKey(d, k)
    THEN [i \in 1..Len(d) |-> IF d[i].k = k THEN [k |-> k, v |-> v] ELSE d[i]]
    ELSE Append(d, [k |-> k, v |-> v])

\* d.update(e)
RECURSIVE Update(_, _)
Update(d, e) ==
    IF e = << >> THEN d ELSE Update(Put(d, Head(e).k, Head(e).v), Tail(e))

\* the mapping a dict holds, whatever its insertion order
Mapping(d) == {<<d[i].k, d[i].v>> : i \in 1..Len(d)}

(* --------------------------- interpolation ---------------------------- *)

\* the loop of interpolate_value over the dict's items, in insertion order
RECURSIVE InterpolateText(_, _)
InterpolateText(d, s) ==
    IF d = << >> THEN s
    ELSE LET placeholder == <<"$">> \o Head(d).k
         IN  InterpolateText(Tail(d),
                 IF Contains(s, placeholder)
                 THEN Replace(s, placeholder, PyStr(Head(d).v))
                 ELSE s)

\* ScriptEngine.interpolate_value and ActionExecutor.interpolate_value
interpolate_value(d, value) ==
    IF value.t # "str" THEN value ELSE StrV(InterpolateText(d, value.s))

(* ------------------------- condition evaluator ------------------------ *)

\* A condition dict: present is "is not None", nonempty its truthiness;
\* a key the dict lacks reads as None (operator: "", variable: << >>).
NoCondition ==
    [present |-> FALSE, nonempty |-> FALSE, variable |-> << >>,
     operator |-> "", value |-> NoneV]

Condition(variable, operator, value) ==
    [present |-> TRUE, nonempty |-> TRUE, variable |-> variable,
     operator |-> operator, value |-> value]

NumericCompare(operator, a, e) ==
    CASE operator = "greater_than" -> a > e
      [] operator = "less_than" -> a < e
      [] operator = "greater_equal" -> a >= e
      [] OTHER -> a <= e

\* an exception leaving evaluate_condition
Raised(msg) == [t |-> "raise", s |-> <<msg>>, n |-> 0]

\* "try: return float(actual_value) > float(expected_value)
\*  except (ValueError, TypeError): return False": the left operand is
\* converted first, and an OverflowError is not caught
NumericCondition(operator, actual_value, expected_value) ==
    LET a == ParseFloat(actual_value)
        e == ParseFloat(expected_value)
    IN  IF FloatOverflow(actual_value)
        THEN Raised("int too large to convert to float")
        ELSE IF a = << >> THEN BoolV(FALSE)
        ELSE IF FloatOverflow(expected_value)
        THEN Raised("int too large to convert to float")
        ELSE IF e = << >> THEN BoolV(FALSE)
        ELSE BoolV(NumericCompare(operator, a[1], e[1]))

\* ScriptEngine.evaluate_condition: the Python object it returns, or the
\* exception it raises
evaluate_condition(d, condition) ==
    IF condition.variable = << >> \/ condition.operator = "" THEN BoolV(FALSE)
    ELSE
    LET actual_value == Get(d, condition.variable)
        expected_value == interpolate_value(d, condition.value)
        operator == condition.operator
    IN  CASE operator = "equals" ->
               BoolV(PyStr(actual_value) = PyStr(expected_value))
          [] operator = "not_equals" ->
               BoolV(PyStr(actual_value) # PyStr(expected_value))
          [] operator = "contains" ->
               BoolV(Contains(PyStr(actual_value), PyStr(expected_value)))
          [] operator = "not_contains" ->
               BoolV(~Contains(PyStr(actual_value), PyStr(expected_value)))
          [] operator \in {"greater_than", "less_than", "greater_equal", "less_equal"} ->
               NumericCondition(operator, actual_value, expected_value)
          [] operator = "exists" -> BoolV(actual_value.t # "none")
          [] operator = "not_exists" -> BoolV(actual_value.t = "none")
          [] operator = "is_empty" ->
               BoolV(~Truthy(actual_value) \/ Len(PyStr(actual_value)) = 0)
          [] operator = "not_empty" ->
               IF ~Truthy(actual_value) THEN actual_value
               ELSE BoolV(Len(PyStr(actual_value)) > 0)
          [] OTHER -> BoolV(FALSE)

(* ------------------------------- steps -------------------------------- *)

\* A step of a script document with every key at its default: the keys of
\* ScriptStep, and the ActionRequest keys ScriptStep does not declare.
StepDoc ==
    [action |-> "", selector |-> NoneV, url |-> NoneV, text |-> NoneV,
     value |-> NoneV, script |-> NoneV, save_as |-> << >>,
     condition |-> NoCondition, then_steps |-> << >>, else_steps |-> << >>,
     loop_range |-> << >>, loop_variable |-> << >>, loop_steps |-> << >>,
     on_error |-> "abort", max_retry |-> <<3>>,
     attribute |-> NoneV, seconds |-> NoneV, tab_index |-> NoneV,
     iframe_selector |-> NoneV, params |-> << >>]

\* ScriptStep(**doc): pydantic keeps the declared fields and drops the rest
RECURSIVE ScriptSteps(_)
ScriptStep(doc) ==
    [action |-> doc.action, selector |-> doc.selector, url |-> doc.url,
     text |-> doc.text, value |-> doc.value, script |-> doc.script,
     save_as |-> doc.save_as, condition |-> doc.condition,
     then_steps |-> ScriptSteps(doc.then_steps),
     else_steps |-> ScriptSteps(doc.else_steps),
     loop_range |-> doc.loop_range, loop_variable |-> doc.loop_variable,
     loop_steps |-> ScriptSteps(doc.loop_steps),
     on_error |-> doc.on_error, max_retry |-> doc.max_retry]

ScriptSteps(docs) ==
    IF docs = << >> THEN << >>
    ELSE <<ScriptStep(Head(docs))>> \o ScriptSteps(Tail(docs))

\* Script(**doc)
Script(doc) == [variables |-> doc.variables, steps |-> ScriptSteps(doc.steps)]

(* ------------------------ the action vocabulary ----------------------- *)

ActionType ==
    {"navigate", "google_get", "get_via", "back", "forward", "refresh",
     "click", "type", "clear", "select_option", "scroll", "scroll_into_view",
     "hover", "focus", "drag_and_drop",
     "get_text", "get_attribute", "get_html", "get_page_html", "get_page_text",
     "get_url", "get_title", "get_cookies", "is_element_present",
     "soupify", "soupify_select", "soupify_select_all",
     "run_js", "run_cdp",
     "set_cookies", "delete_cookies", "load_cookies_netscape",
     "screenshot", "screenshot_element",
     "new_tab", "switch_tab", "close_tab", "get_tabs",
     "select_iframe", "get_iframe_by_link", "exit_iframe",
     "sleep", "random_sleep", "wait_for_navigation", "wait_for_element",
     "enable_human_mode", "disable_human_mode",
     "fetch_get", "fetch_post"}

\* "x if step.x else None" of _step_to_action, with the engine's interpolation
StepField(d, field) == IF Truthy(field) THEN interpolate_value(d, field) ELSE NoneV

\* ScriptEngine._step_to_action, for an action ActionType(step.action) accepts
step_to_action(d, step) ==
    [action |-> step.action,
     selector |-> StepField(d, step.selector),
     url |-> StepField(d, step.url),
     text |-> StepField(d, step.text),
     value |-> StepField(d, step.value),
     script |-> StepField(d, step.script),
     attribute |-> NoneV, cookies |-> << >>, cookies_text |-> NoneV,
     seconds |-> NoneV, min_seconds |-> NoneV, max_seconds |-> NoneV,
     tab_index |-> NoneV, iframe_selector |-> NoneV, params |-> << >>]

\* ActionExecutor.interpolate_params: the executor's own pass over the fields
interpolate_params(d, action) ==
    [action EXCEPT
        !.selector = interpolate_value(d, @),
        !.url = interpolate_value(d, @),
        !.text = interpolate_value(d, @),
        !.value = interpolate_value(d, @),
        !.attribute = interpolate_value(d, @),
        !.script = interpolate_value(d, @),
        !.cookies_text = interpolate_value(d, @),
        !.iframe_selector = interpolate_value(d, @),
        !.params = [i \in 1..Len(@) |->
                      [k |-> @[i].k, v |-> interpolate_value(d, @[i].v)]]]

(* ------------------------- the action handlers ------------------------ *)

UrlActions ==
    {"navigate", "google_get", "get_via", "get_iframe_by_link", "fetch_get",
     "fetch_post"}

SelectorActions ==
    {"click", "type", "clear", "select_option", "scroll_into_view", "hover",
     "focus", "drag_and_drop", "get_text", "get_attribute", "get_html",
     "is_element_present", "soupify_select", "soupify_select_all",
     "screenshot_element", "wait_for_element"}

\* RequiredFieldError, were no field required
RequiredFieldError_None(action) == ""

\* The ValueError a handler raises before it touches the driver ("" if none):
\* the "if not action.x: raise ValueError(...)" lines of each _handler.
RequiredFieldError(action) ==
    LET a == action.action
    IN  CASE a \in UrlActions /\ ~Truthy(action.url) ->
               "URL is required for " \o a \o " action"
          [] a = "get_via" /\ ~HasKey(action.params, <<"v", "i", "a">>) ->
               "'via' parameter is required for get_via action"
          [] a = "drag_and_drop" /\ ~Truthy(action.selector) ->
               "Source selector is required for drag_and_drop action"
          [] a \in SelectorActions /\ ~Truthy(action.selector) ->
               "Selector is required for " \o a \o " action"
          [] a = "type" /\ action.text.t = "none" ->
               "Text is required for type action"
          [] a = "select_option" /\ ~Truthy(action.value) ->
               "Value is required for select_option action"
          [] a = "drag_and_drop" /\ ~HasKey(action.params, <<"t", "a", "r", "g", "e", "t">>) ->
               "Target selector is required in params for drag_and_drop action"
          [] a = "get_attribute" /\ ~Truthy(action.attribute) ->
               "Attribute is required for get_attribute action"
          [] a = "run_js" /\ ~Truthy(action.script) ->
               "Script is required for run_js action"
          [] a = "run_cdp" /\ ~HasKey(action.params, <<"c", "m", "d">>) ->
               "CDP command is required in params"
          [] a = "set_cookies" /\ action.cookies = << >> ->
               "Cookies are required for set_cookies action"
          [] a = "load_cookies_netscape" /\ ~Truthy(action.cookies_text) ->
               "Cookies text is required for load_cookies_netscape action"
          [] a = "switch_tab" /\ action.tab_index.t = "none" ->
               "Tab index is required for switch_tab action"
          [] a = "select_iframe" /\ ~Truthy(action.iframe_selector) ->
               "Iframe selector is required for select_iframe action"
          [] a = "sleep" /\ action.seconds.t = "none" ->
               "Seconds is required for sleep action"
          [] a = "random_sleep" /\ (action.min_seconds.t = "none" \/ action.max_seconds.t = "none") ->
               "min_seconds and max_seconds are required for random_sleep action"
          [] OTHER -> ""

\* Handlers that return None
ReturnsNone ==
    {"click", "type", "clear", "select_option", "scroll", "scroll_into_view",
     "hover", "focus", "drag_and_drop", "set_cookies", "delete_cookies",
     "load_cookies_netscape", "close_tab", "select_iframe",
     "get_iframe_by_link", "exit_iframe", "sleep", "enable_human_mode",
     "disable_human_mode"}

\* Handlers that make no driver call
NoDriver == {"sleep", "random_sleep"}

\* What the page can answer: the texts a handler can return
MaxText == 2
PageTexts == {StrV(NatStr(k)) : k \in 1..MaxText}

\* Handlers that return driver.current_url
ReturnsUrl ==
    {"navigate", "google_get", "get_via", "back", "forward", "refresh",
     "get_url", "wait_for_navigation"}

\* The values the driver can hand back for a request it serves: one URL and
\* one title for the page, any of the page's texts for the rest
DriverValues(action) ==
    CASE action.action \in ReturnsNone -> {NoneV}
      [] action.action \in ReturnsUrl -> {StrV(<<"u">>)}
      [] action.action = "get_title" -> {StrV(<<"t">>)}
      [] action.action = "run_js" -> PageTexts \cup {NoneV, IntV(MaxText)}
      [] action.action \in {"is_element_present", "wait_for_element"} ->
           {BoolV(TRUE), BoolV(FALSE)}
      [] OTHER -> PageTexts

\* An attempt of ActionExecutor.execute through _step_to_action: what it can
\* end as.  outcome: "bad_action" (ActionType(step.action) raises),
\* "invalid" (the handler's required-field check raises), "raised" (the
\* driver raises), "returned" (val is the handler's result).
Attempt(outcome, val, msg, req) ==
    [outcome |-> outcome, val |-> val, msg |-> msg, req |-> req]

NoRequest ==
    [action |-> "", selector |-> NoneV, url |-> NoneV, text |-> NoneV,
     value |-> NoneV, script |-> NoneV, attribute |-> NoneV,
     cookies |-> << >>, cookies_text |-> NoneV, seconds |-> NoneV,
     min_seconds |-> NoneV, max_seconds |-> NoneV, tab_index |-> NoneV,
     iframe_selector |-> NoneV, params |-> << >>]

Attempts(engine_vars, executor_vars, step) ==
    IF step.action \notin ActionType
    THEN {Attempt("bad_action", NoneV,
                  "'" \o step.action \o "' is not a valid ActionType", NoRequest)}
    ELSE LET req == interpolate_params(executor_vars, step_to_action(engine_vars, step))
             err == RequiredFieldError(req)
         IN  IF err # "" THEN {Attempt("invalid", NoneV, err, req)}
             ELSE {Attempt("returned", v, "", req) : v \in DriverValues(req)}
                  \cup (IF req.action \in NoDriver THEN {}
                        ELSE {Attempt("raised", NoneV, "Element not found", req)})

(* ------------------------------- state -------------------------------- *)

VARIABLES
    pc,                  \* "request", "constructed", "running", "done";
                         \* "idle": no run request is in progress
    doc,                 \* the script document of the run request
    request_variables,   \* ScriptRunRequest.variables (<< >>: None or {})
    script,              \* the Script parsed from doc
    variables,           \* ScriptEngine.variables
    executor_variables,  \* ActionExecutor.variables
    aliased,             \* the two are one dict object
    steps_completed,     \* ScriptEngine.steps_completed
    stack,               \* the execute_step invocations in progress
    exc,                 \* the exception in flight: << >> or <<message>>
    result,              \* << >>, or <<the dict execute_script returned>>
    trace,               \* what has happened so far (history)
    sessions,            \* SessionManager.sessions: id -> [status, driver]
    closed_sessions,     \* the ids close_session closed, not removed since (history)
    reported             \* the <<id, status>> the last operation returned

run_vars ==
    <<pc, doc, request_variables, script, variables, executor_variables,
      aliased, steps_completed, stack, exc, result, trace>>

session_vars == <<sessions, closed_sessions, reported>>

vars == <<run_vars, session_vars>>

\* ErrorStrategy, were the step's own policy not read
ErrorStrategy_Abort(step) == "abort"

\* step.on_error or "abort"
ErrorStrategy(step) == IF step.on_error = "" THEN "abort" ELSE step.on_error

DefaultMaxRetry == 3

\* step.max_retry or 3
\* MaxRetry, were a max_retry of 0 taken as written
MaxRetry_ZeroKept(step) ==
    IF step.max_retry = << >> THEN DefaultMaxRetry ELSE step.max_retry[1]

MaxRetry(step) ==
    IF step.max_retry = << >> \/ step.max_retry[1] = 0
    THEN DefaultMaxRetry ELSE step.max_retry[1]

\* "if step.condition and step.then_steps"
IsConditional(step) ==
    step.condition.present /\ step.condition.nonempty /\ step.then_steps # << >>

\* "if step.loop_range and step.loop_steps", reached when the first test fails
IsLoop(step) ==
    ~IsConditional(step) /\ step.loop_range # << >> /\ step.loop_steps # << >>

\* step.loop_variable or "i"
LoopVariable(step) ==
    IF step.loop_variable = << >> THEN <<"i">> ELSE step.loop_variable

\* One invocation of execute_step (or, at the bottom, of execute_script's
\* loop).  at: "try" (entered), "then"/"else"/"loop"/"script" (running the
\* idx-th step of that body); i: the loop value; sc0: steps_completed on entry.
Frame(step, retry_count, at, i, idx, sc0) ==
    [step |-> step, retry_count |-> retry_count, at |-> at, i |-> i,
     idx |-> idx, sc0 |-> sc0]

Top == stack[Len(stack)]

Body(f) ==
    CASE f.at = "script" -> script.steps
      [] f.at = "then" -> f.step.then_steps
      [] f.at = "else" -> f.step.else_steps
      [] f.at = "loop" -> f.step.loop_steps
      [] OTHER -> << >>

\* Return, were the caller's loop to pass over the step after the callee
Return_SkipNext(stk) ==
    LET n == Len(stk) - 1
    IN  [j \in 1..n |-> IF j = n THEN [stk[j] EXCEPT !.idx = @ + 2] ELSE stk[j]]

\* the callee returns: the caller's for loop moves to its next step
Return(stk) ==
    LET n == Len(stk) - 1
    IN  [j \in 1..n |-> IF j = n THEN [stk[j] EXCEPT !.idx = @ + 1] ELSE stk[j]]

\* where the step being run sits in the script: per enclosing body, which body
\* (0 script, 1 then, 2 else, 3 loop) and the index in it
BodyCode(at) ==
    CASE at = "then" -> 1 [] at = "else" -> 2 [] at = "loop" -> 3 [] OTHER -> 0

Path(stk) == [j \in 1..(Len(stk) - 1) |-> <<BodyCode(stk[j].at), stk[j].idx>>]

\* the error strategies of the steps enclosing the one on top, outermost first
Enclosing(stk) == [j \in 1..(Len(stk) - 2) |-> ErrorStrategy(stk[j + 1].step)]

\* An entry of the history, about the invocation on top of stk.  ev: "call",
\* "condition", "loop", "attempt", "complete", "skip", "retry", "raise";
\* sc0, sc: steps_completed when the invocation began, and after the event.
EventAt(stk, ev, outcome, val, req, sc) ==
    [ev |-> ev, path |-> Path(stk), step |-> stk[Len(stk)].step,
     retry |-> stk[Len(stk)].retry_count, encl |-> Enclosing(stk),
     outcome |-> outcome, val |-> val, req |-> req,
     sc0 |-> stk[Len(stk)].sc0, sc |-> sc]

Event(ev, outcome, val, req, sc) == EventAt(stack, ev, outcome, val, req, sc)

\* Result, were the message of the error not kept
Result_NoMessage(success, error) ==
    [success |-> success, steps_completed |-> steps_completed,
     variables |-> variables, error |-> << >>]

\* Result, were steps_completed the number of steps of the script
Result_TotalSteps(success, error) ==
    [success |-> success, steps_completed |-> Len(script.steps),
     variables |-> variables, error |-> error]

\* the dict execute_script returns
Result(success, error) ==
    [success |-> success, steps_completed |-> steps_completed,
     variables |-> variables, error |-> error]

(* ------------------------------- inputs -------------------------------- *)

MaxSteps == 3      \* the longest flat script
MaxRetryN == 2     \* the largest max_retry a script writes
MaxLoop == 3       \* the largest loop bound

SeqsUpTo(S, n) == UNION {[1..k -> S] : k \in 0..n}

Dict1(k, v) == <<[k |-> k, v |-> v]>>

Request(variables_, steps_, supplied) ==
    [doc |-> [variables |-> variables_, steps |-> steps_],
     request_variables |-> supplied]

Act(action) == [StepDoc EXCEPT !.action = action]

GetUrl == Act("get_url")
GetTitle == Act("get_title")
\* reads the element "#$x", keeps the text as r
GetTextSave ==
    [Act("get_text") EXCEPT !.selector = StrV(<<"#", "$", "x">>), !.save_as = <<"r">>]
\* reads the element "#$r"
GetTextOfR == [Act("get_text") EXCEPT !.selector = StrV(<<"#", "$", "r">>)]
Policy(step, on_error, max_retry) ==
    [step EXCEPT !.on_error = on_error, !.max_retry = max_retry]

X1 == Dict1(<<"x">>, IntV(1))

\* every script of at most MaxSteps steps that are action steps with the
\* default policy
FlatRequests ==
    {Request(X1, ss, << >>) : ss \in SeqsUpTo({GetUrl, GetTextSave}, MaxSteps)}

RetryValues == {<< >>} \cup {<<n>> : n \in (0 - 1)..MaxRetryN}

\* a step under each error policy and retry budget, and the step after it
PolicyRequests ==
    {Request(<< >>, <<Policy(st, e, m), GetTitle>>, << >>) :
        st \in {GetUrl, Act("noop")},
        e \in {"abort", "skip", "retry", "", "ignore"},
        m \in RetryValues}

\* the caller's variables against the script's defaults
MergeRequests ==
    {Request(dv, <<GetTextSave>>, rv) :
        dv \in {<< >>, X1},
        rv \in {<< >>, Dict1(<<"x">>, IntV(2)), Dict1(<<"y">>, IntV(2))}}

CondXIs(op, text) == Condition(<<"x">>, op, StrV(text))

Loop(range, body, on_error) ==
    [Act("loop") EXCEPT !.loop_range = range, !.loop_steps = body,
                        !.on_error = on_error, !.max_retry = <<1>>]

If(condition, then_steps, else_steps, on_error) ==
    [Act("if") EXCEPT !.condition = condition, !.then_steps = then_steps,
                      !.else_steps = else_steps, !.on_error = on_error,
                      !.max_retry = <<1>>]

LoopRanges ==
    {<<a, b>> : a, b \in 1..MaxLoop} \cup {<<1>>, <<1, 2, 3>>}

Bodies == {<<GetUrl>>, <<GetTextSave, GetUrl>>, <<Policy(GetUrl, "skip", <<3>>)>>}

\* a loop, then one more step
LoopRequests ==
    {Request(X1, <<Loop(r, b, e), GetTitle>>, << >>) :
        r \in LoopRanges, b \in Bodies, e \in {"abort", "skip"}}
    \cup {Request(X1, <<Loop(r, <<GetUrl>>, "retry"), GetTitle>>, << >>) :
             r \in LoopRanges}

Conditions ==
    {CondXIs("equals", <<"1">>), CondXIs("greater_than", <<"1">>),
     Condition(<<"r">>, "equals", StrV(<<"$", "x">>))}

\* a conditional, then one more step
IfRequests ==
    {Request(X1, <<If(c, t, el, e), GetTitle>>, << >>) :
        c \in Conditions,
        t \in {<<GetUrl>>, <<GetTextSave, GetUrl>>},
        el \in {<< >>, <<GetTitle, GetUrl>>},
        e \in {"abort", "skip"}}

\* steps that carry a condition and an else body but no then body
OddIfRequests ==
    {Request(X1, <<[If(c, << >>, <<GetTitle>>, "abort") EXCEPT !.action = a]>>, << >>) :
        c \in Conditions, a \in {"if", "get_url"}}

\* compound steps inside compound steps
NestedRequests ==
    {Request(X1, <<Loop(<<1, 2>>, <<If(c, <<GetTextSave>>, <<GetUrl>>, e1)>>, e2), GetTitle>>, << >>) :
        c \in Conditions, e1 \in {"abort", "skip"}, e2 \in {"abort", "skip"}}
    \cup
    {Request(X1, <<If(CondXIs("equals", <<"1">>), <<Loop(<<1, 2>>, <<GetUrl>>, e1), GetUrl>>, << >>, e2), GetTitle>>, << >>) :
        e1 \in {"abort", "skip"}, e2 \in {"abort", "skip", "retry"}}

\* a saved result, read back by a field and by a condition
SaveRequests ==
    {Request(X1, <<Policy(GetTextSave, e, <<1>>), GetTextOfR,
                   If(Condition(<<"r">>, "equals", StrV(<<"2">>)), <<GetUrl>>, <<GetTitle>>, "abort")>>,
             << >>) : e \in {"abort", "skip", "retry"}}

\* {variables: {x: 1}, steps: [{action: "sleep", seconds: 0},
\*   {loop_range: [1, 2], loop_variable: "i",
\*    loop_steps: [{action: "noop", save_as: "last_i"}]}]}
LastI == <<"l", "a", "s", "t", "_", "i">>
ScenarioRequest ==
    Request(X1,
        <<[Act("sleep") EXCEPT !.seconds = IntV(0)],
          [Act("loop") EXCEPT !.loop_range = <<1, 2>>, !.loop_variable = <<"i">>,
                              !.loop_steps = <<[Act("noop") EXCEPT !.save_as = LastI]>>]>>,
        << >>)

\* one step of each kind that has required fields, with none of them, with
\* its url, with its selector, and with selector and text
KindsWithRequiredFields ==
    {"navigate", "google_get", "get_via", "fetch_get", "fetch_post", "click",
     "type", "clear", "hover", "get_text", "get_attribute", "select_option",
     "run_js", "run_cdp", "sleep", "random_sleep", "switch_tab",
     "select_iframe", "drag_and_drop"}

SelA == StrV(<<"#", "a">>)

ValidationSteps ==
    {Act(a) : a \in KindsWithRequiredFields}
    \cup {[Act(a) EXCEPT !.url = StrV(<<"u">>)] : a \in KindsWithRequiredFields}
    \cup {[Act(a) EXCEPT !.selector = SelA] : a \in KindsWithRequiredFields}
    \cup {[Act("type") EXCEPT !.selector = SelA, !.text = t] :
             t \in {StrV(<< >>), StrV(<<"1">>)}}

ValidationRequests ==
    {Request(<< >>, <<Policy(st, e, <<1>>), GetTitle>>, << >>) :
        st \in ValidationSteps, e \in {"abort", "skip"}}

\* steps whose document supplies the fields their kind requires
SuppliedSteps ==
    {[Act("sleep") EXCEPT !.seconds = IntV(1)],
     [Act("get_attribute") EXCEPT !.selector = SelA, !.attribute = StrV(<<"h">>)],
     [Act("switch_tab") EXCEPT !.tab_index = IntV(0)],
     [Act("select_iframe") EXCEPT !.iframe_selector = SelA],
     [Act("get_via") EXCEPT !.url = StrV(<<"u">>),
                            !.params = Dict1(<<"v", "i", "a">>, StrV(<<"u">>))],
     [Act("run_cdp") EXCEPT !.params = Dict1(<<"c", "m", "d">>, StrV(<<"c">>))],
     [Act("navigate") EXCEPT !.url = StrV(<<"u">>)],
     [Act("type") EXCEPT !.selector = SelA, !.text = StrV(<<"1">>)]}

SuppliedRequests == {Request(<< >>, <<st, GetTitle>>, << >>) : st \in SuppliedSteps}

\* the operators evaluate_condition knows
ComparisonOperators == {"equals", "not_equals", "contains", "not_contains"}
NumericOperators == {"greater_than", "less_than", "greater_equal", "less_equal"}
PresenceOperators == {"exists", "not_exists", "is_empty", "not_empty"}
Operators == ComparisonOperators \cup NumericOperators \cup PresenceOperators

\* what x can hold: nothing (no x), null, 0, false, "", 1, "a", 10 ** 309
StoredValues ==
    {NoneV, IntV(0), BoolV(FALSE), StrV(<< >>), IntV(1), StrV(<<"a">>), HugeV}

Stores == {<< >>} \cup {Dict1(<<"x">>, v) : v \in StoredValues}

Literals ==
    {NoneV, StrV(<< >>), StrV(<<"N", "o", "n", "e">>), StrV(<<"o", "n">>),
     StrV(<<"1">>), StrV(<<"$", "x">>), HugeV}

\* every operator on x, the comparing ones with every literal; an operator
\* the evaluator does not know; a condition with no variable, with no operator
ConditionsOnX ==
    {Condition(<<"x">>, op, v) :
        op \in ComparisonOperators \cup NumericOperators, v \in Literals}
    \cup {Condition(<<"x">>, op, NoneV) : op \in PresenceOperators \cup {"matches"}}
    \cup {Condition(<< >>, "equals", StrV(<<"1">>)),
          Condition(<<"x">>, "", StrV(<<"1">>))}

ConditionRequests ==
    {Request(d, <<If(c, <<GetUrl>>, <<GetTitle>>, "abort")>>, << >>) :
        d \in Stores, c \in ConditionsOnX}

\* a click saved as r (a handler that returns nothing), then conditions on r
SavedNoneRequests ==
    {Request(<< >>,
             <<[Act("click") EXCEPT !.selector = SelA, !.save_as = <<"r">>],
               If(Condition(<<"r">>, op, NoneV), <<GetUrl>>, <<GetTitle>>, "abort")>>,
             << >>) : op \in PresenceOperators}

Count == <<"c", "o", "u", "n", "t">>

\* count = 10 and count = "abc" against the literal "5", with and without an
\* else body
CountRequests ==
    {Request(Dict1(Count, v),
             <<If(Condition(Count, op, StrV(<<"5">>)), <<GetUrl>>, el, e), GetTitle>>,
             << >>) :
        v \in {IntV(10), StrV(<<"a", "b", "c">>), StrV(<<"1", "0">>), HugeV},
        op \in NumericOperators,
        el \in {<< >>, <<GetTitle>>},
        e \in {"abort", "skip"}}

Dict2(k1, v1, k2, v2) == <<[k |-> k1, v |-> v1], [k |-> k2, v |-> v2]>>

User == <<"u", "s", "e", "r">>
Username == <<"u", "s", "e", "r", "n", "a", "m", "e">>

\* a holds "$b" and b holds "x"; user and username; each in both insertion
\* orders
InterpolationStores ==
    {Dict2(<<"a">>, StrV(<<"$", "b">>), <<"b">>, StrV(<<"x">>)),
     Dict2(<<"b">>, StrV(<<"x">>), <<"a">>, StrV(<<"$", "b">>)),
     Dict2(User, StrV(<<"U">>), Username, StrV(<<"N">>)),
     Dict2(Username, StrV(<<"N">>), User, StrV(<<"U">>))}

\* a field that names one variable
InterpolationRequests ==
    {Request(d, <<[Act("get_text") EXCEPT !.selector = StrV(<<"$">> \o n)], GetTitle>>, << >>) :
        d \in InterpolationStores, n \in {<<"a">>, <<"b">>, User, Username}}

\* reads the element "#$i", keeps the text as i: a body step that overwrites
\* the loop variable
GetTextSaveI ==
    [Act("get_text") EXCEPT !.selector = StrV(<<"#", "$", "i">>), !.save_as = <<"i">>]

IIs2 == Condition(<<"i">>, "equals", StrV(<<"2">>))

\* loops whose body writes the loop variable or tests it, over a store that
\* is empty and over one that holds i already
LoopVariableRequests ==
    {Request(d, <<Loop(r, b, "abort"), GetTextSaveI>>, << >>) :
        d \in {<< >>, Dict1(<<"i">>, IntV(7))},
        r \in {<<1, 2>>, <<2, 3>>, <<2, 1>>, <<2, 2>>},
        b \in {<<GetTextSaveI>>,
               <<If(IIs2, <<GetTextSaveI>>, <<GetUrl>>, "abort")>>}}

\* a loop whose body step has the retry policy
RetryInLoopRequests ==
    {Request(<< >>, <<Loop(<<1, 2>>, <<Policy(GetUrl, "retry", <<n>>)>>, e), GetTitle>>, << >>) :
        n \in 1..MaxRetryN, e \in {"abort", "skip"}}

\* a step with a loop body and a range of no bound, under an action the
\* actor knows and under one it does not
NoBoundRequests ==
    {Request(<< >>, <<[Loop(<< >>, <<GetTitle>>, e) EXCEPT !.action = a], GetTitle>>, << >>) :
        a \in {"get_url", "loop"}, e \in {"abort", "skip"}}

\* steps that carry the fields of a conditional and of a loop, with and
\* without a then body; a loop range without a loop body
MixedShapeRequests ==
    {Request(X1,
             <<[If(CondXIs("equals", <<"1">>), t, <<GetTitle>>, "abort")
                   EXCEPT !.action = "get_url", !.loop_range = <<1, 2>>,
                          !.loop_steps = <<GetUrl>>]>>,
             << >>) : t \in {<< >>, <<GetTitle>>}}
    \cup {Request(X1, <<[GetUrl EXCEPT !.loop_range = <<1, 2>>]>>, << >>)}

\* a run that begins with no variables, writes a loop variable and keeps a
\* result
EmptyStoreRequests ==
    {Request(<< >>,
             <<Loop(<<1, 2>>, <<[GetUrl EXCEPT !.save_as = <<"r">>]>>, "abort"), GetTitle>>,
             << >>)}

\* a step that keeps its result, retried up to MaxRetryN times
RetrySaveRequests ==
    {Request(X1, <<Policy(GetTextSave, "retry", <<MaxRetryN>>), GetTitle>>, << >>)}

Requests ==
    FlatRequests \cup PolicyRequests \cup MergeRequests \cup LoopRequests
    \cup IfRequests \cup OddIfRequests \cup NestedRequests \cup SaveRequests
    \cup {ScenarioRequest} \cup ValidationRequests \cup SuppliedRequests
    \cup ConditionRequests \cup SavedNoneRequests \cup CountRequests
    \cup InterpolationRequests \cup LoopVariableRequests
    \cup RetryInLoopRequests \cup NoBoundRequests \cup MixedShapeRequests
    \cup RetrySaveRequests \cup EmptyStoreRequests

(* ------------------------------ actions ------------------------------- *)

(* the session manager *)

\* SessionStatus
ACTIVE == "active"
IDLE == "idle"
CLOSED == "closed"

SessionStatus == {ACTIVE, IDLE, CLOSED}

\* what create_session stores: an open browser, status ACTIVE
NewSession == [status |-> ACTIVE, driver |-> TRUE]

\* get_session: "session['status'] = SessionStatus.ACTIVE" when the id is known
Touched(ss, id) ==
    IF id \in DOMAIN ss THEN [ss EXCEPT ![id].status = ACTIVE] ELSE ss

\* close_session: engine.close() drops the driver, the status becomes CLOSED
Closed(ss, id) ==
    IF id \in DOMAIN ss THEN [ss EXCEPT ![id] = [status |-> CLOSED, driver |-> FALSE]]
    ELSE ss

\* del self.sessions[session_id]
Removed(ss, ids) == [id \in DOMAIN ss \ ids |-> ss[id]]

\* _get_session_info: the status a SessionInfo carries
SessionInfo(ss, id) == <<id, ss[id].status>>

\* the session_id of the run request: a session that exists
RequestSession == "s1"

\* run_script, "Объединяем переменные": the script's defaults, then the
\* caller's values over them
MergeRequest(defaults, supplied) == Update(defaults, supplied)

\* execute_script, "Merge script variables with existing variables"
MergeScript(existing, defaults) == Update(existing, defaults)

\* run_script up to the construction of the engine: ScriptEngine.__init__
\* and ActionExecutor.__init__ each keep "variables or {}"
run_script ==
    /\ pc = "request"
    /\ RequestSession \in DOMAIN sessions
    /\ sessions' = Touched(sessions, RequestSession)
    /\ UNCHANGED <<closed_sessions, reported>>
    /\ LET merged == MergeRequest(doc.variables, request_variables)
       IN  /\ variables' = merged
           /\ executor_variables' = merged
           /\ aliased' = (merged # << >>)
    /\ script' = Script(doc)
    /\ steps_completed' = 0
    /\ pc' = "constructed"
    /\ UNCHANGED <<doc, request_variables, stack, exc, result, trace>>

\* execute_script up to its try block
execute_script ==
    /\ pc = "constructed"
    /\ UNCHANGED session_vars
    /\ steps_completed' = 0
    /\ variables' = MergeScript(variables, script.variables)
    /\ executor_variables' =
           MergeScript(IF aliased THEN variables' ELSE executor_variables,
                       script.variables)
    /\ stack' = <<Frame(ScriptStep(StepDoc), 0, "script", 0, 1, 0)>>
    /\ pc' = "running"
    /\ UNCHANGED <<doc, request_variables, script, aliased, exc, result, trace>>

\* "for step in ...: self.execute_step(step)": the next step of a body is called
call_step ==
    /\ pc = "running" /\ exc = << >>
    /\ UNCHANGED session_vars
    /\ Top.at \in {"script", "then", "else", "loop"}
    /\ Top.idx <= Len(Body(Top))
    /\ stack' = Append(stack, Frame(Body(Top)[Top.idx], 0, "try", 0, 1, steps_completed))
    /\ trace' = Append(trace, EventAt(stack', "call", "", NoneV, NoRequest, steps_completed))
    /\ UNCHANGED <<pc, doc, request_variables, script, variables,
                   executor_variables, aliased, steps_completed, exc, result>>

\* the conditional branch of execute_step: the condition picks the body
evaluate_conditional ==
    /\ pc = "running" /\ exc = << >>
    /\ UNCHANGED session_vars
    /\ Top.at = "try"
    /\ IsConditional(Top.step)
    /\ LET condition_result == evaluate_condition(variables, Top.step.condition)
           at == IF Truthy(condition_result) THEN "then" ELSE "else"
       IN  IF condition_result.t = "raise"
           THEN /\ exc' = <<condition_result.s[1]>>
                /\ trace' = Append(trace,
                       Event("condition", "raised", NoneV, NoRequest, steps_completed))
                /\ stack' = stack
           ELSE /\ stack' = [stack EXCEPT ![Len(stack)].at = at, ![Len(stack)].idx = 1]
                /\ trace' = Append(trace,
                       Event("condition", at, condition_result, NoRequest, steps_completed))
                /\ exc' = exc
    /\ UNCHANGED <<pc, doc, request_variables, script, variables,
                   executor_variables, aliased, steps_completed, result>>

\* WriteEngine, were the write left out
WriteEngine_Dropped(d, k, v) == d

\* WriteExecutor, were the executor's store not written
WriteExecutor_Dropped(d, k, v) == d

\* self.variables[k] = v; self.action_executor.variables[k] = v
WriteEngine(d, k, v) == Put(d, k, v)
WriteExecutor(d, k, v) == Put(d, k, v)

\* the loop branch of execute_step, up to its first iteration
enter_loop ==
    /\ pc = "running" /\ exc = << >>
    /\ UNCHANGED session_vars
    /\ Top.at = "try"
    /\ IsLoop(Top.step)
    /\ LET range == Top.step.loop_range
           n == Len(stack)
       IN  IF Len(range) # 2
           THEN /\ exc' = <<"loop_range must have exactly 2 elements: [start, end]">>
                /\ trace' = Append(trace,
                       Event("loop", "invalid", NoneV, NoRequest, steps_completed))
                /\ UNCHANGED <<stack, variables, executor_variables>>
           ELSE IF range[1] > range[2]
           THEN /\ stack' = [stack EXCEPT ![n].at = "loop", ![n].i = range[1],
                                          ![n].idx = Len(Top.step.loop_steps) + 1]
                /\ trace' = Append(trace,
                       Event("loop", "empty", NoneV, NoRequest, steps_completed))
                /\ UNCHANGED <<exc, variables, executor_variables>>
           ELSE /\ stack' = [stack EXCEPT ![n].at = "loop", ![n].i = range[1],
                                          ![n].idx = 1]
                /\ variables' = WriteEngine(variables, LoopVariable(Top.step), IntV(range[1]))
                /\ executor_variables' =
                       WriteExecutor(IF aliased THEN variables' ELSE executor_variables,
                                     LoopVariable(Top.step), IntV(range[1]))
                /\ trace' = Append(trace,
                       Event("loop", "iteration", IntV(range[1]), NoRequest, steps_completed))
                /\ exc' = exc
    /\ UNCHANGED <<pc, doc, request_variables, script, aliased, steps_completed, result>>

\* "for i in range(start, end + 1)": the next iteration
next_iteration ==
    /\ pc = "running" /\ exc = << >>
    /\ UNCHANGED session_vars
    /\ Top.at = "loop"
    /\ Top.idx > Len(Body(Top))
    /\ Top.i < Top.step.loop_range[2]
    /\ LET n == Len(stack)
           i == Top.i + 1
       IN  /\ stack' = [stack EXCEPT ![n].i = i, ![n].idx = 1]
           /\ variables' = WriteEngine(variables, LoopVariable(Top.step), IntV(i))
           /\ executor_variables' =
                  WriteExecutor(IF aliased THEN variables' ELSE executor_variables,
                                LoopVariable(Top.step), IntV(i))
           /\ trace' = Append(trace,
                  Event("loop", "iteration", IntV(i), NoRequest, steps_completed))
    /\ UNCHANGED <<pc, doc, request_variables, script, aliased, steps_completed,
                   exc, result>>

\* CountCompound, were the compound step itself not counted
CountCompound_NotCounted(n) == n

\* "self.steps_completed += 1" of a conditional or a loop
CountCompound(n) == n + 1

\* the body of a conditional or a loop is through: count the step, return
complete_compound ==
    /\ pc = "running" /\ exc = << >>
    /\ UNCHANGED session_vars
    /\ Top.at \in {"then", "else", "loop"}
    /\ Top.idx > Len(Body(Top))
    /\ Top.at = "loop" => Top.i >= Top.step.loop_range[2]
    /\ steps_completed' = CountCompound(steps_completed)
    /\ trace' = Append(trace,
           Event("complete", Top.at, NoneV, NoRequest, steps_completed'))
    /\ stack' = Return(stack)
    /\ UNCHANGED <<pc, doc, request_variables, script, variables,
                   executor_variables, aliased, exc, result>>

\* SaveResult, were the result dropped
SaveResult_Dropped(d, step, value) == d

\* "if step.save_as:" the result is saved
SaveResult(d, step, value) ==
    IF step.save_as # << >> THEN Put(d, step.save_as, value) ELSE d

\* CountAction, were a step that was retried counted again
CountAction_Twice(n) == n + 2

\* "self.steps_completed += 1" of an action step
CountAction(n) == n + 1

\* "Regular action execution": one attempt of an action step
dispatch ==
    /\ pc = "running" /\ exc = << >>
    /\ UNCHANGED session_vars
    /\ Top.at = "try"
    /\ ~IsConditional(Top.step) /\ ~IsLoop(Top.step)
    /\ \E a \in Attempts(variables, executor_variables, Top.step) :
          IF a.outcome = "returned"
          THEN /\ variables' = SaveResult(variables, Top.step, a.val)
               /\ executor_variables' =
                      SaveResult(IF aliased THEN variables' ELSE executor_variables,
                                 Top.step, a.val)
               /\ steps_completed' = CountAction(steps_completed)
               /\ trace' = Append(trace,
                      Event("attempt", a.outcome, a.val, a.req, steps_completed'))
               /\ stack' = Return(stack)
               /\ exc' = exc
          ELSE /\ exc' = <<a.msg>>
               /\ trace' = Append(trace,
                      Event("attempt", a.outcome, a.val, a.req, steps_completed))
               /\ UNCHANGED <<variables, executor_variables, steps_completed, stack>>
    /\ UNCHANGED <<pc, doc, request_variables, script, aliased, result>>

\* CountSkipped, were a skipped step not counted
CountSkipped_NotCounted(n) == n

\* "self.steps_completed += 1" of a skipped step
CountSkipped(n) == n + 1

\* except: error_strategy == "skip"
skip_step ==
    /\ pc = "running" /\ exc # << >>
    /\ UNCHANGED session_vars
    /\ Len(stack) > 1
    /\ ErrorStrategy(Top.step) = "skip"
    /\ steps_completed' = CountSkipped(steps_completed)
    /\ exc' = << >>
    /\ trace' = Append(trace, Event("skip", "", NoneV, NoRequest, steps_completed'))
    /\ stack' = Return(stack)
    /\ UNCHANGED <<pc, doc, request_variables, script, variables,
                   executor_variables, aliased, result>>

\* CanRetry, were the strategy not looked at
CanRetry_AnyStrategy(step, retry_count) == retry_count < MaxRetry(step)

\* CanRetry, were the last retry of the budget withheld
CanRetry_OneFewer(step, retry_count) ==
    ErrorStrategy(step) = "retry" /\ retry_count + 1 < MaxRetry(step)

\* "error_strategy == 'retry' and retry_count < max_retry"
CanRetry(step, retry_count) ==
    ErrorStrategy(step) = "retry" /\ retry_count < MaxRetry(step)

\* Restart, were a retried loop to go on from the iteration that failed
Restart_Resume(f, sc) ==
    IF f.at = "loop"
    THEN [f EXCEPT !.retry_count = @ + 1, !.idx = 1, !.sc0 = sc]
    ELSE Frame(f.step, f.retry_count + 1, "try", 0, 1, sc)

\* self.execute_step(step, retry_count + 1): the step is run from its
\* beginning, with nothing kept of the invocation that failed
Restart(f, sc) == Frame(f.step, f.retry_count + 1, "try", 0, 1, sc)

\* except: return self.execute_step(step, retry_count + 1), a tail call: the
\* retry takes the place of the invocation that failed (the one-second sleep
\* before it is not modelled)
retry_step ==
    /\ pc = "running" /\ exc # << >>
    /\ UNCHANGED session_vars
    /\ Len(stack) > 1
    /\ ErrorStrategy(Top.step) # "skip"
    /\ CanRetry(Top.step, Top.retry_count)
    /\ exc' = << >>
    /\ trace' = Append(trace, Event("retry", "", NoneV, NoRequest, steps_completed))
    /\ stack' = [stack EXCEPT ![Len(stack)] = Restart(Top, steps_completed)]
    /\ UNCHANGED <<pc, doc, request_variables, script, variables,
                   executor_variables, aliased, steps_completed, result>>

\* except: raise (abort, retries exhausted, or a strategy the code does not know)
propagate ==
    /\ pc = "running" /\ exc # << >>
    /\ UNCHANGED session_vars
    /\ Len(stack) > 1
    /\ ErrorStrategy(Top.step) # "skip"
    /\ ~CanRetry(Top.step, Top.retry_count)
    /\ trace' = Append(trace, Event("raise", exc[1], NoneV, NoRequest, steps_completed))
    /\ stack' = SubSeq(stack, 1, Len(stack) - 1)
    /\ UNCHANGED <<pc, doc, request_variables, script, variables,
                   executor_variables, aliased, steps_completed, exc, result>>

\* execute_script: every step returned
script_completed ==
    /\ pc = "running" /\ exc = << >>
    /\ UNCHANGED session_vars
    /\ Top.at = "script"
    /\ Top.idx > Len(script.steps)
    /\ result' = <<Result(TRUE, << >>)>>
    /\ pc' = "done"
    /\ stack' = << >>
    /\ UNCHANGED <<doc, request_variables, script, variables, executor_variables,
                   aliased, steps_completed, exc, trace>>

\* execute_script: "except Exception as e": the failure becomes the result
script_failed ==
    /\ pc = "running" /\ exc # << >>
    /\ UNCHANGED session_vars
    /\ Len(stack) = 1
    /\ result' = <<Result(FALSE, <<exc[1]>>)>>
    /\ pc' = "done"
    /\ stack' = << >>
    /\ exc' = << >>
    /\ UNCHANGED <<doc, request_variables, script, variables, executor_variables,
                   aliased, steps_completed, trace>>

Next ==
    \/ run_script
    \/ execute_script
    \/ call_step
    \/ evaluate_conditional
    \/ enter_loop
    \/ next_iteration
    \/ complete_compound
    \/ dispatch
    \/ skip_step
    \/ retry_step
    \/ propagate
    \/ script_completed
    \/ script_failed

Init ==
    /\ pc = "request"
    /\ \E r \in Requests : doc = r.doc /\ request_variables = r.request_variables
    /\ script = [variables |-> << >>, steps |-> << >>]
    /\ variables = << >>
    /\ executor_variables = << >>
    /\ aliased = FALSE
    /\ steps_completed = 0
    /\ stack = << >>
    /\ exc = << >>
    /\ result = << >>
    /\ trace = << >>
    /\ sessions = [id \in {RequestSession} |-> NewSession]
    /\ closed_sessions = {}
    /\ reported = {}

Spec == Init /\ [][Next]_vars

\* The engine runs in one thread and every statement of it runs to its end
\* when each actor call returns or raises: a step that can be taken is taken.
FairSpec == Spec /\ WF_vars(Next)

(* ------------------------- the session manager ------------------------- *)

MaxSessions == 2   \* settings.max_sessions of the model

SessionIds == {"s1", "s2", "s3"}

\* create_session: refused at the limit; the browser may fail to start
create_session(id) ==
    /\ id \notin DOMAIN sessions
    /\ Cardinality(DOMAIN sessions) < MaxSessions
    /\ \/ /\ sessions' = [k \in DOMAIN sessions \cup {id} |->
                              IF k = id THEN NewSession ELSE sessions[k]]
          /\ reported' = {SessionInfo(sessions', id)}
       \/ /\ sessions' = sessions
          /\ reported' = {}
    /\ UNCHANGED <<closed_sessions, run_vars>>

\* create_session at the limit raises
create_session_refused ==
    /\ Cardinality(DOMAIN sessions) >= MaxSessions
    /\ reported' = {}
    /\ UNCHANGED <<sessions, closed_sessions, run_vars>>

\* get_session: the session, made ACTIVE, or None
get_session(id) ==
    /\ sessions' = Touched(sessions, id)
    /\ reported' = IF id \in DOMAIN sessions THEN {SessionInfo(sessions', id)} ELSE {}
    /\ UNCHANGED <<closed_sessions, run_vars>>

get_session_info(id) ==
    /\ reported' = IF id \in DOMAIN sessions THEN {SessionInfo(sessions, id)} ELSE {}
    /\ UNCHANGED <<sessions, closed_sessions, run_vars>>

list_sessions ==
    /\ reported' = {SessionInfo(sessions, id) : id \in DOMAIN sessions}
    /\ UNCHANGED <<sessions, closed_sessions, run_vars>>

\* close_session: True when the id is known
close_session(id) ==
    /\ sessions' = Closed(sessions, id)
    /\ closed_sessions' = IF id \in DOMAIN sessions THEN closed_sessions \cup {id}
                           ELSE closed_sessions
    /\ reported' = {}
    /\ UNCHANGED run_vars

\* remove_session: close_session, then the entry is deleted
remove_session(id) ==
    /\ sessions' = Removed(Closed(sessions, id), {id})
    /\ closed_sessions' = closed_sessions \ {id}
    /\ reported' = {}
    /\ UNCHANGED run_vars

close_all_sessions ==
    /\ sessions' = [id \in DOMAIN sessions |-> Closed(sessions, id)[id]]
    /\ closed_sessions' = DOMAIN sessions
    /\ reported' = {}
    /\ UNCHANGED run_vars

\* cleanup_idle_sessions: the sessions whose last activity is older than the
\* timeout (any of them, as time is not modelled) are removed
cleanup_idle_sessions ==
    /\ \E idle \in SUBSET DOMAIN sessions :
          /\ sessions' = Removed(sessions, idle)
          /\ closed_sessions' = closed_sessions \ idle
    /\ reported' = {}
    /\ UNCHANGED run_vars

SessionNext ==
    \/ \E id \in SessionIds :
          \/ create_session(id)
          \/ get_session(id)
          \/ get_session_info(id)
          \/ close_session(id)
          \/ remove_session(id)
    \/ create_session_refused
    \/ list_sessions
    \/ close_all_sessions
    \/ cleanup_idle_sessions

\* the manager as the module creates it, no run request in progress
SessionInit ==
    /\ sessions = << >>
    /\ closed_sessions = {}
    /\ reported = {}
    /\ pc = "idle"
    /\ doc = [variables |-> << >>, steps |-> << >>]
    /\ request_variables = << >>
    /\ script = [variables |-> << >>, steps |-> << >>]
    /\ variables = << >>
    /\ executor_variables = << >>
    /\ aliased = FALSE
    /\ steps_completed = 0
    /\ stack = << >>
    /\ exc = << >>
    /\ result = << >>
    /\ trace = << >>

SessionSpec == SessionInit /\ [][SessionNext]_vars

(* ------------------------- reading the history ------------------------ *)

Last(sq) == sq[Len(sq)]

Events == 1..Len(trace)

\* the step is run as an action: neither branch of execute_step took it
IsAction(step) == ~IsConditional(step) /\ ~IsLoop(step)

\* an attempt that ended in an error
Failed(e) == e.ev = "attempt" /\ e.outcome # "returned"

\* an attempt that reached the actor
Dispatched(e) == e.ev = "attempt" /\ e.outcome \in {"returned", "raised"}

Done == pc = "done"

\* the names the run has written: saved results and loop variables
Written ==
    {trace[j].step.save_as : j \in {k \in Events : trace[k].ev = "attempt"
                                                    /\ trace[k].outcome = "returned"}}
    \cup {LoopVariable(trace[j].step) : j \in {k \in Events : trace[k].ev = "loop"
                                                    /\ trace[k].outcome = "iteration"}}

(* ------------------------------- claims -------------------------------- *)

\* an error reached execute_script: a top-level step raised last
TopLevelRaise ==
    trace # << >> /\ Last(trace).ev = "raise" /\ Len(Last(trace).path) = 1

\* C1: execute_script never raises to its caller.  An exception in flight
\* always has a handler below it, the run can always go on until it has
\* returned, and the record it returns has success = false and the message of
\* the error when a step's error reached the top level, success = true and no
\* error otherwise.
C1_NeverRaises ==
    /\ exc # << >> => stack # << >> /\ pc = "running"
    /\ ~Done => ENABLED Next
    /\ Done =>
         /\ Len(result) = 1
         /\ IF TopLevelRaise
            THEN result[1].success = FALSE /\ result[1].error = <<Last(trace).outcome>>
            ELSE result[1].success = TRUE /\ result[1].error = << >>

C1_Witness == Done /\ TopLevelRaise /\ result[1].success = FALSE

\* C2: the caller's variables win over the script's defaults.  While the
\* steps run and in the result, every name the caller supplied and no step
\* wrote holds the caller's value.
C2_CallerWins ==
    pc \in {"running", "done"} =>
        \A j \in 1..Len(request_variables) :
            request_variables[j].k \notin Written =>
                Get(variables, request_variables[j].k) = request_variables[j].v

\* the attempts made so far of the step at the path of event j
AttemptsAt(j) ==
    Cardinality({k \in 1..j : trace[k].ev = "attempt" /\ trace[k].path = trace[j].path})

\* C3: a top-level action step with on_error = "retry" and max_retry = N >= 0
\* whose every attempt fails has been attempted exactly 1 + N times when its
\* error propagates.
C3_RetryAttempts ==
    \A j \in Events :
        LET e == trace[j]
        IN  (/\ e.ev = "raise"
             /\ Len(e.path) = 1
             /\ IsAction(e.step)
             /\ e.step.on_error = "retry"
             /\ e.step.max_retry # << >>
             /\ e.step.max_retry[1] >= 0)
            => AttemptsAt(j) = 1 + e.step.max_retry[1]

\* the step has the abort policy (the default)
HasAbortPolicy(step) == step.on_error \in {"abort", ""}

\* C4 as stated: whenever the dispatch of an abort-policy action step has
\* failed, at any depth, the run ends with success = false.
C4_AbortFailsRun ==
    Done =>
        \A j \in Events :
            (Failed(trace[j]) /\ HasAbortPolicy(trace[j].step))
                => result[1].success = FALSE

\* C4, amended: the failed dispatch of an abort-policy action step is neither
\* skipped nor retried, its error leaves the step; and when every enclosing
\* step has the abort policy too, the run ends with success = false.
C4_AbortPropagates ==
    \A j \in Events :
        (Failed(trace[j]) /\ HasAbortPolicy(trace[j].step)) =>
            /\ j < Len(trace) =>
                  /\ trace[j + 1].ev = "raise"
                  /\ trace[j + 1].path = trace[j].path
            /\ (Done /\ \A d \in 1..Len(trace[j].encl) : trace[j].encl[d] = "abort")
                  => result[1].success = FALSE

C4_Witness ==
    /\ Done
    /\ result[1].success = FALSE
    /\ \E j \in Events :
          /\ Failed(trace[j]) /\ HasAbortPolicy(trace[j].step)
          /\ Len(trace[j].encl) = 2

\* the place after path p in the same body
NextSibling(p) == [p EXCEPT ![Len(p)] = <<p[Len(p)][1], p[Len(p)][2] + 1>>]
Parent(p) == SubSeq(p, 1, Len(p) - 1)

\* C5: a failing step with on_error = "skip" is attempted once and not
\* retried, counts as one completed step, raises nothing, and the run goes on
\* with the next step of the same body (or, the body being through, with the
\* enclosing step); a run in which no error is raised out of a step succeeds.
C5_SkipContinues ==
    /\ \A j \in Events :
          (Failed(trace[j]) /\ trace[j].step.on_error = "skip") =>
              /\ trace[j].retry = 0
              /\ j > 1 /\ trace[j - 1].ev = "call"
              /\ j < Len(trace) =>
                    /\ trace[j + 1].ev = "skip"
                    /\ trace[j + 1].path = trace[j].path
                    /\ trace[j + 1].sc = trace[j].sc + 1
              /\ j + 1 = Len(trace) => exc = << >> /\ steps_completed = trace[j].sc + 1
              /\ j + 1 < Len(trace) =>
                    \/ /\ trace[j + 2].ev = "call"
                       /\ trace[j + 2].path = NextSibling(trace[j].path)
                    \/ /\ trace[j + 2].ev \in {"complete", "loop"}
                       /\ trace[j + 2].path = Parent(trace[j].path)
    /\ (Done /\ \A j \in Events : trace[j].ev # "raise") => result[1].success = TRUE

C5_Witness ==
    /\ Done
    /\ result[1].success = TRUE
    /\ \E j \in Events :
          /\ Failed(trace[j]) /\ trace[j].step.on_error = "skip" /\ IsAction(trace[j].step)
          /\ j + 2 <= Len(trace)
          /\ trace[j + 2].ev = "call"

\* every top-level step is an action step with the abort policy
FlatAbortScript ==
    \A n \in 1..Len(script.steps) :
        IsAction(script.steps[n]) /\ HasAbortPolicy(script.steps[n])

\* C6: in a script of top-level abort-policy action steps whose k-th step is
\* the first to fail, no step after the k-th is attempted, and the result has
\* steps_completed = k - 1.
C6_ProgressAtFailure ==
    FlatAbortScript =>
        \A j \in Events :
            Failed(trace[j]) =>
                LET k == trace[j].path[1][2]
                IN  /\ \A m \in Events : trace[m].ev \in {"call", "attempt"} => trace[m].path[1][2] <= k
                    /\ \A m \in (j + 1)..Len(trace) : trace[m].ev # "attempt"
                    /\ steps_completed = k - 1
                    /\ Done => result[1].steps_completed = k - 1 /\ result[1].success = FALSE

C6_Witness ==
    /\ Done /\ FlatAbortScript
    /\ Len(script.steps) = 3
    /\ \E j \in Events : Failed(trace[j]) /\ trace[j].path[1][2] = 2
    /\ result[1].steps_completed = 1

AllActions(body) == \A n \in 1..Len(body) : IsAction(body[n])

\* C7: a compound step adds one to steps_completed for itself, on top of its
\* body steps: a loop over [start, end], start <= end, with a body of k action
\* steps that returns has added (end - start + 1) * k + 1; a conditional that
\* returns has added 1 plus the number of steps of the branch it ran, which is
\* 1 when it ran none.
C7_CompoundCount ==
    \A j \in Events :
        LET e == trace[j]
        IN  e.ev = "complete" =>
              /\ (/\ e.outcome = "loop"
                  /\ AllActions(e.step.loop_steps)
                  /\ e.step.loop_range[1] <= e.step.loop_range[2])
                 => e.sc - e.sc0 =
                      (e.step.loop_range[2] - e.step.loop_range[1] + 1)
                          * Len(e.step.loop_steps) + 1
              /\ (e.outcome = "then" /\ AllActions(e.step.then_steps))
                 => e.sc - e.sc0 = 1 + Len(e.step.then_steps)
              /\ (e.outcome = "else" /\ AllActions(e.step.else_steps))
                 => e.sc - e.sc0 = 1 + Len(e.step.else_steps)

\* a loop over [1, 3] with one body step, every attempt of which succeeded,
\* has returned: 3 + 1
C7_Witness ==
    /\ \E j \in Events :
          /\ trace[j].ev = "complete" /\ trace[j].outcome = "loop"
          /\ trace[j].step.loop_range = <<1, 3>>
          /\ Len(trace[j].step.loop_steps) = 1
          /\ \A m \in 1..j : ~Failed(trace[m])
          /\ trace[j].sc - trace[j].sc0 = 4
    /\ Done

\* a conditional whose condition was false and that has no else body returned
C7_WitnessNoBranch ==
    \E j \in Events :
        /\ trace[j].ev = "complete" /\ trace[j].outcome = "else"
        /\ trace[j].step.else_steps = << >>
        /\ trace[j].sc - trace[j].sc0 = 1

\* C8: the scenario script {variables: {x: 1}, steps: [sleep 0 seconds, loop
\* i over [1, 2] of a noop saved as last_i]} ends with success = true,
\* variables.last_i = 2 and steps_completed = 3.
C8_Scenario ==
    (Done /\ doc = ScenarioRequest.doc) =>
        /\ result[1].success = TRUE
        /\ PyStr(Get(result[1].variables, LastI)) = <<"2">>
        /\ result[1].steps_completed = 3

\* the latest evaluation of the condition of the step at path p before event j
LatestCondition(p, j) ==
    LET c == {m \in 1..(j - 1) : trace[m].ev = "condition" /\ trace[m].path = p}
    IN  IF c = {} THEN 0 ELSE CHOOSE m \in c : \A n \in c : n <= m

\* C9: a step that carries a condition is never dispatched to the actor as an
\* action, and the steps called from its bodies are those of the then body
\* when its condition was true and of the else body when it was false.
C9_ConditionalBranches ==
    /\ \A j \in Events : Dispatched(trace[j]) => ~trace[j].step.condition.present
    /\ \A j \in Events :
          LET e == trace[j]
              at == e.path[Len(e.path)][1]
              c == LatestCondition(Parent(e.path), j)
          IN  (e.ev = "call" /\ at \in {1, 2}) =>
                  /\ c > 0
                  /\ trace[c].outcome = (IF at = 1 THEN "then" ELSE "else")
                  /\ trace[c].outcome = "then" <=> Truthy(trace[c].val)

\* the latest successful save under name before event j (0: none)
LatestSave(name, j) ==
    LET c == {m \in 1..(j - 1) : /\ trace[m].ev = "attempt"
                                  /\ trace[m].outcome = "returned"
                                  /\ trace[m].step.save_as = name}
    IN  IF c = {} THEN 0 ELSE CHOOSE m \in c : \A n \in c : n <= m

R == <<"r">>

\* the last event, once the history has grown
Appended == Len(trace') = Len(trace) + 1

\* C10: an action step with save_as = n writes the value the actor returned
\* under n, in the engine's store and in the executor's, exactly when its
\* dispatch succeeds, and changes no other name; a failed attempt, and the
\* skip, retry or raise that follows it, leave both stores as they were.  The
\* saved value is the one a later field "#$r" is interpolated with and a later
\* condition on r compares.
C10_SaveAs ==
    /\ [][(Appended /\ Last(trace').ev = "attempt") =>
            LET e == Last(trace')
                n == e.step.save_as
            IN  IF e.outcome = "returned" /\ n # << >>
                THEN /\ HasKey(variables', n) /\ Get(variables', n) = e.val
                     /\ HasKey(executor_variables', n)
                     /\ Get(executor_variables', n) = e.val
                     /\ \A i \in 1..Len(variables) :
                           variables[i].k # n =>
                               Get(variables', variables[i].k) = variables[i].v
                ELSE /\ variables' = variables
                     /\ executor_variables' = executor_variables]_vars
    /\ [][exc # << >> =>
            variables' = variables /\ executor_variables' = executor_variables]_vars
    /\ [](\A j \in Events :
            LET e == trace[j]
                m == LatestSave(R, j)
            IN  m > 0 /\ LoopVariable(e.step) # R =>
                  /\ (e.ev = "attempt" /\ e.step.selector = StrV(<<"#", "$", "r">>))
                     => e.req.selector = StrV(<<"#">> \o PyStr(trace[m].val))
                  /\ (e.ev = "condition"
                      /\ e.step.condition = Condition(R, "equals", StrV(<<"2">>)))
                     => (e.outcome = "then" <=> PyStr(trace[m].val) = <<"2">>))

\* a save succeeded, and the next step's field and the condition after it
\* saw the saved text
C10_Witness ==
    \E j \in Events :
        /\ trace[j].ev = "condition"
        /\ trace[j].outcome = "then"
        /\ trace[j].step.condition = Condition(R, "equals", StrV(<<"2">>))
        /\ LatestSave(R, j) > 0
        /\ \E k \in 1..j :
              /\ trace[k].ev = "attempt"
              /\ trace[k].req.selector = StrV(<<"#", "2">>)

\* a failed attempt of a step with save_as, then skipped
C10_WitnessFailed ==
    \E j \in Events :
        /\ Failed(trace[j]) /\ trace[j].step.save_as = R
        /\ ~HasKey(variables, R)
        /\ j < Len(trace) /\ trace[j + 1].ev = "skip"

(* ----------------------- validation and dispatch ----------------------- *)

\* the kinds the contract names with the field each requires
NeedsUrl == {"navigate", "google_get", "fetch_get", "fetch_post"}
NeedsSelector == {"click", "type", "clear", "hover", "get_text"}

\* the request lacks a field its kind requires
MissingRequired(req) ==
    \/ req.action \in NeedsUrl /\ req.url = NoneV
    \/ req.action \in NeedsSelector /\ req.selector = NoneV
    \/ req.action = "type" /\ req.text = NoneV
    \/ req.action = "sleep" /\ req.seconds = NoneV
    \/ req.action = "switch_tab" /\ req.tab_index = NoneV

\* C11: validation precedes dispatch.  An attempt whose request lacks a field
\* its kind requires ends in the validation error: it does not reach the
\* actor, returns no value, counts no step, and the error is in flight and is
\* then skipped, retried or raised; the request still lacks the field.
C11_ValidationFirst ==
    \A j \in Events :
        LET e == trace[j]
        IN  (e.ev = "attempt" /\ MissingRequired(e.req)) =>
              /\ e.outcome = "invalid"
              /\ ~Dispatched(e)
              /\ e.val = NoneV
              /\ j = Len(trace) => exc # << >>
              /\ j < Len(trace) => trace[j + 1].ev \in {"skip", "retry", "raise"}

\* a type step with its selector and no text failed validation, and so did a
\* sleep step
C11_Witness ==
    /\ Done
    /\ \E j \in Events :
          /\ trace[j].ev = "attempt" /\ trace[j].outcome = "invalid"
          /\ trace[j].req.action = "type"
          /\ trace[j].req.selector = SelA /\ trace[j].req.text = NoneV
    /\ result[1].success = FALSE

\* the ActionRequest the fields of a step document make
DocRequest(d) ==
    [NoRequest EXCEPT !.action = d.action, !.selector = d.selector,
                      !.url = d.url, !.text = d.text, !.value = d.value,
                      !.script = d.script, !.attribute = d.attribute,
                      !.seconds = d.seconds, !.tab_index = d.tab_index,
                      !.iframe_selector = d.iframe_selector, !.params = d.params]

\* C12: a top-level action step whose document supplies the fields its kind
\* requires passes validation, and its request reaches the actor with the
\* fields the document supplied.
C12_SuppliedFieldsReach ==
    \A j \in Events :
        LET e == trace[j]
            d == doc.steps[e.path[1][2]]
        IN  (/\ e.ev = "attempt" /\ Len(e.path) = 1
             /\ d.action \in ActionType
             /\ RequiredFieldError(DocRequest(d)) = "")
            => /\ e.outcome # "invalid"
               /\ e.req.action = d.action
               /\ e.req.seconds = d.seconds
               /\ e.req.tab_index = d.tab_index
               /\ Truthy(d.attribute) => Truthy(e.req.attribute)
               /\ Truthy(d.iframe_selector) => Truthy(e.req.iframe_selector)
               /\ \A i \in 1..Len(d.params) : HasKey(e.req.params, d.params[i].k)

(* ------------------------- the condition evaluator --------------------- *)

\* a condition has just been evaluated: the store is the one it read
Evaluated == trace # << >> /\ Last(trace).ev = "condition"

\* C13: evaluate_condition never fails.  Whatever the store, the operator and
\* the literal, it raises nothing and returns a boolean, and it returns false
\* when the operator is not one of the twelve or the condition has no
\* variable name or no operator.
C13_EvaluatesToBoolean ==
    Evaluated =>
        LET e == Last(trace)
            c == e.step.condition
        IN  /\ e.outcome # "raised"
            /\ e.val.t = "bool"
            /\ (c.operator \notin Operators \/ c.variable = << >>)
                   => e.val = BoolV(FALSE)

\* C14: with the variable absent from the store, equals, contains and the
\* four numeric operators are false, whatever the literal.
C14_AbsentComparesFalse ==
    Evaluated =>
        LET e == Last(trace)
            c == e.step.condition
        IN  (/\ c.variable # << >>
             /\ ~HasKey(variables, c.variable)
             /\ c.operator \in {"equals", "contains"} \cup NumericOperators)
            => e.outcome = "else" /\ ~Truthy(e.val)

\* C15: exists is true exactly when the name is a key of the store, whatever
\* the value stored under it, and not_exists exactly when it is not.
C15_ExistsIsPresence ==
    Evaluated =>
        LET e == Last(trace)
            c == e.step.condition
        IN  /\ (c.variable # << >> /\ c.operator = "exists")
                   => (Truthy(e.val) <=> HasKey(variables, c.variable))
            /\ (c.variable # << >> /\ c.operator = "not_exists")
                   => (Truthy(e.val) <=> ~HasKey(variables, c.variable))

\* absent, None, or of a string form of length zero
IsEmptyValue(d, name) ==
    \/ ~HasKey(d, name)
    \/ Get(d, name) = NoneV
    \/ Len(PyStr(Get(d, name))) = 0

\* C16: is_empty is true exactly when the variable is absent, is None or has
\* a string form of length zero, and not_empty is its negation.
C16_IsEmpty ==
    Evaluated =>
        LET e == Last(trace)
            c == e.step.condition
        IN  /\ (c.variable # << >> /\ c.operator = "is_empty")
                   => (Truthy(e.val) <=> IsEmptyValue(variables, c.variable))
            /\ (c.variable # << >> /\ c.operator = "not_empty")
                   => (Truthy(e.val) <=> ~IsEmptyValue(variables, c.variable))

\* C17: a numeric operator compares the variable and the interpolated literal
\* as numbers, is false when either is not a number, and raises nothing; the
\* then body runs when it is true, the else body (or none) when it is false.
\* count = 10 is greater than "5"; count = "abc" is not.
C17_NumericCompare ==
    Evaluated =>
        LET e == Last(trace)
            c == e.step.condition
            a == ParseFloat(Get(variables, c.variable))
            x == ParseFloat(interpolate_value(variables, c.value))
        IN  (c.variable # << >> /\ c.operator \in NumericOperators) =>
              /\ e.outcome # "raised"
              /\ e.outcome = "then" <=>
                    (a # << >> /\ x # << >> /\ NumericCompare(c.operator, a[1], x[1]))
              /\ (c = Condition(Count, "greater_than", StrV(<<"5">>))
                  /\ Get(variables, Count) = IntV(10)) => e.outcome = "then"
              /\ (c = Condition(Count, "greater_than", StrV(<<"5">>))
                  /\ Get(variables, Count) = StrV(<<"a", "b", "c">>)) => e.outcome = "else"

(* ----------------------------- interpolation --------------------------- *)

\* C18: interpolation does not substitute again into text it has inserted.
\* With a = "$b" and b = "x" in the store, in either insertion order, the
\* field "$a" of a step reaches the actor as "$b".
C18_NoResubstitution ==
    \A j \in Events :
        LET e == trace[j]
        IN  (/\ e.ev = "attempt"
             /\ e.step.selector = StrV(<<"$", "a">>)
             /\ Get(variables, <<"a">>) = StrV(<<"$", "b">>)
             /\ Get(variables, <<"b">>) = StrV(<<"x">>))
            => e.req.selector = StrV(<<"$", "b">>)

\* the stores that hold the mapping of d, in every insertion order
SameMapping(d) ==
    {q \in [1..Len(d) -> {d[i] : i \in 1..Len(d)}] : Mapping(q) = Mapping(d)}

\* C19: what interpolation gives depends on the mapping of the store only.
\* For the step just attempted, every store that holds the same mapping as
\* the run's, whatever its insertion order, gives the same interpolated field
\* and the same request to the actor.
C19_OrderIrrelevant ==
    (/\ trace # << >>
     /\ Last(trace).ev = "attempt" /\ Last(trace).outcome # "bad_action"
     /\ Last(trace).step.save_as = << >>
     /\ executor_variables = variables)
    => \A d \in SameMapping(variables) :
          /\ interpolate_value(d, Last(trace).step.selector)
                = interpolate_value(variables, Last(trace).step.selector)
          /\ interpolate_params(d, step_to_action(d, Last(trace).step))
                = Last(trace).req

(* ----------------------------- program order -------------------------- *)

IsAttempt(e) == e.ev = "attempt"
IsCondition(e) == e.ev = "condition"

\* where the attempts so far were made, in the order they were made
AttemptPaths ==
    LET a == SelectSeq(trace, IsAttempt) IN [n \in 1..Len(a) |-> a[n].path]

\* the branches the conditions evaluated so far chose, in order
Chosen ==
    LET c == SelectSeq(trace, IsCondition) IN [n \in 1..Len(c) |-> c[n].outcome]

\* nothing has failed so far
AllSucceeded ==
    \A j \in Events :
        /\ ~Failed(trace[j])
        /\ ~(trace[j].ev = "condition" /\ trace[j].outcome = "raised")
        /\ ~(trace[j].ev = "loop" /\ trace[j].outcome = "invalid")

\* The depth-first, left-to-right expansion of a step tree: the places of the
\* action steps in the order they come, a loop giving its body once per value
\* of its range, a conditional the branch that was chosen for it (the k-th
\* choice made).  open: every choice needed so far was there; the expansion
\* stops at the first conditional not yet chosen for.
RECURSIVE ExpandSteps(_, _, _, _, _)
RECURSIVE ExpandStep(_, _, _)
RECURSIVE ExpandLoop(_, _, _, _)

Expanded(seq, k, open) == [seq |-> seq, k |-> k, open |-> open]

ExpandStep(step, path, k) ==
    IF IsConditional(step)
    THEN IF k > Len(Chosen) THEN Expanded(<< >>, k, FALSE)
         ELSE IF Chosen[k] = "then"
              THEN ExpandSteps(step.then_steps, 1, path, 1, k + 1)
              ELSE ExpandSteps(step.else_steps, 2, path, 1, k + 1)
    ELSE IF IsLoop(step)
    THEN IF Len(step.loop_range) # 2 THEN Expanded(<< >>, k, FALSE)
         ELSE ExpandLoop(step, path, step.loop_range[1], k)
    ELSE Expanded(<<path>>, k, TRUE)

ExpandLoop(step, path, i, k) ==
    IF i > step.loop_range[2] THEN Expanded(<< >>, k, TRUE)
    ELSE LET first == ExpandSteps(step.loop_steps, 3, path, 1, k)
         IN  IF ~first.open THEN first
             ELSE LET rest == ExpandLoop(step, path, i + 1, first.k)
                  IN  Expanded(first.seq \o rest.seq, rest.k, rest.open)

ExpandSteps(body, code, prefix, idx, k) ==
    IF idx > Len(body) THEN Expanded(<< >>, k, TRUE)
    ELSE LET first == ExpandStep(body[idx], Append(prefix, <<code, idx>>), k)
         IN  IF ~first.open THEN first
             ELSE LET rest == ExpandSteps(body, code, prefix, idx + 1, first.k)
                  IN  Expanded(first.seq \o rest.seq, rest.k, rest.open)

Expansion == ExpandSteps(script.steps, 0, << >>, 1, 1)

IsPrefix(p, q) == Len(p) <= Len(q) /\ SubSeq(q, 1, Len(p)) = p

\* C20: steps run one at a time, in program order.  While nothing has
\* failed, the attempts made so far are a prefix of the depth-first,
\* left-to-right expansion of the script, and a run that ends has made
\* exactly the attempts of the expansion: a nested body is through before the
\* step after the enclosing step is attempted.
C20_ProgramOrder ==
    (pc \in {"running", "done"} /\ AllSucceeded) =>
        /\ IsPrefix(AttemptPaths, Expansion.seq)
        /\ Done => (Expansion.open /\ AttemptPaths = Expansion.seq)

\* a loop over [1, 2] whose body is a conditional, then one more step: three
\* attempts, the last one of the step after the loop
C20_Witness ==
    /\ Done /\ AllSucceeded
    /\ Len(AttemptPaths) = 3
    /\ Len(AttemptPaths[1]) = 3 /\ Len(AttemptPaths[2]) = 3
    /\ AttemptPaths[3] = <<<<0, 2>>>>

(* --------------------------------- loops ------------------------------- *)

\* the event that began the invocation event j belongs to: the latest call
\* or retry of the step at the path of j
InvocationStart(j) ==
    LET c == {m \in 1..j : /\ trace[m].ev \in {"call", "retry"}
                           /\ trace[m].path = trace[j].path}
    IN  CHOOSE m \in c : \A n \in c : n <= m

\* the iterations the loop invocation of event j has begun, in order
Iterations(j) ==
    {m \in InvocationStart(j)..j : /\ trace[m].ev = "loop"
                                   /\ trace[m].outcome = "iteration"
                                   /\ trace[m].path = trace[j].path}

\* C21: a loop over [start, end], start <= end, runs its body once for each
\* value from start to end, in order.  When the iteration for i begins, both
\* stores hold i under the loop variable, whatever the body wrote there
\* before: the first body step's field "#$i" reaches the actor as "#" i and a
\* condition on i compares i.  When start > end no body step is called and
\* the stores are left as they were.
C21_LoopIterations ==
    /\ [](\A j \in Events :
            LET e == trace[j]
                lv == LoopVariable(e.step)
            IN  /\ (e.ev = "loop" /\ e.outcome = "iteration") =>
                      /\ e.val = IntV(e.step.loop_range[1] + Cardinality(Iterations(j)) - 1)
                      /\ e.val.n <= e.step.loop_range[2]
                      /\ j = Len(trace) =>
                            /\ Get(variables, lv) = e.val
                            /\ Get(executor_variables, lv) = e.val
                      /\ j < Len(trace) =>
                            /\ trace[j + 1].ev = "call"
                            /\ trace[j + 1].path = Append(e.path, <<3, 1>>)
                      /\ (j + 2 <= Len(trace) /\ lv = <<"i">>) =>
                            /\ (trace[j + 2].ev = "attempt"
                                /\ trace[j + 2].step.selector = StrV(<<"#", "$", "i">>))
                               => trace[j + 2].req.selector = StrV(<<"#">> \o PyStr(e.val))
                            /\ (trace[j + 2].ev = "condition"
                                /\ trace[j + 2].step.condition = IIs2)
                               => (trace[j + 2].outcome = "then" <=> e.val = IntV(2))
                /\ (e.ev = "complete" /\ e.outcome = "loop") =>
                      Cardinality(Iterations(j)) =
                          IF e.step.loop_range[1] <= e.step.loop_range[2]
                          THEN e.step.loop_range[2] - e.step.loop_range[1] + 1
                          ELSE 0
                /\ (e.ev = "loop" /\ e.outcome = "empty") =>
                      /\ e.step.loop_range[1] > e.step.loop_range[2]
                      /\ j < Len(trace) =>
                            trace[j + 1].ev = "complete" /\ trace[j + 1].path = e.path)
    /\ [][(Appended /\ Last(trace').ev = "loop" /\ Last(trace').outcome = "empty")
            => variables' = variables /\ executor_variables' = executor_variables]_vars

\* a loop over [1, 2] whose body saved its result as i has returned: the
\* second iteration read the element "#2"
C21_Witness ==
    \E j \in Events :
        /\ trace[j].ev = "complete" /\ trace[j].outcome = "loop"
        /\ trace[j].step.loop_range = <<1, 2>>
        /\ trace[j].step.loop_steps = ScriptSteps(<<GetTextSaveI>>)
        /\ Cardinality(Iterations(j)) = 2
        /\ trace[j - 1].ev = "attempt" /\ trace[j - 1].outcome = "returned"
        /\ trace[j - 1].req.selector = StrV(<<"#", "2">>)
        /\ Get(variables, <<"i">>) = trace[j - 1].val

\* a loop over [2, 1] has returned with the store as it was
C21_WitnessEmpty ==
    \E j \in Events :
        /\ trace[j].ev = "complete" /\ trace[j].outcome = "loop"
        /\ trace[j].step.loop_range = <<2, 1>>
        /\ Get(variables, <<"i">>) = IntV(7)

(* ------------------------------- retries ------------------------------- *)

\* the call that began the invocation event j belongs to
CallOf(j) ==
    LET c == {m \in 1..j : trace[m].ev = "call" /\ trace[m].path = trace[j].path}
    IN  CHOOSE m \in c : \A n \in c : n <= m

\* the attempts of that invocation up to event j, and those that failed
AttemptsSince(j) ==
    {m \in CallOf(j)..j : trace[m].ev = "attempt" /\ trace[m].path = trace[j].path}
FailedSince(j) == {m \in AttemptsSince(j) : Failed(trace[m])}

\* the step of the event is a body step of a loop
InLoop(e) == Len(e.path) >= 2 /\ e.path[Len(e.path)][1] = 3

\* C22: the retry budget of a body step is fresh in every iteration.  Every
\* call of a step begins with no retry used, an attempt is the r-th retry
\* exactly when r attempts of this call have failed, and a body step of a
\* loop with on_error = "retry" and max_retry = N >= 1 raises only after
\* 1 + N attempts of this call, whatever earlier iterations used.
C22_FreshBudget ==
    \A j \in Events :
        LET e == trace[j]
        IN  /\ e.ev = "call" => e.retry = 0
            /\ (e.ev = "attempt" /\ IsAction(e.step))
                  => e.retry = Cardinality(FailedSince(j) \ {j})
            /\ (/\ e.ev = "raise" /\ IsAction(e.step) /\ InLoop(e)
                 /\ e.step.on_error = "retry"
                 /\ e.step.max_retry # << >> /\ e.step.max_retry[1] >= 1)
                  => Cardinality(AttemptsSince(j)) = 1 + e.step.max_retry[1]

\* the body step used its one retry in the first iteration and returned; in
\* the second iteration it failed twice and raised
C22_Witness ==
    \E j \in Events :
        /\ trace[j].ev = "raise" /\ IsAction(trace[j].step) /\ InLoop(trace[j])
        /\ trace[j].step.max_retry = <<1>>
        /\ Cardinality(AttemptsSince(j)) = 2
        /\ Cardinality({m \in 1..j : trace[m].ev = "attempt"
                                     /\ trace[m].path = trace[j].path}) = 4

(* ----------------------------- step shapes ----------------------------- *)

\* C23: a step with a loop body whose loop_range has not exactly two bounds
\* (none, one, three or more) raises at the step itself: it is never
\* attempted as an action, its call is followed by the range error, and the
\* error is skipped, retried or raised by the step; its body is never called.
C23_MalformedRange ==
    \A j \in Events :
        LET e == trace[j]
        IN  (/\ e.step.loop_steps # << >>
             /\ Len(e.step.loop_range) # 2
             /\ ~IsConditional(e.step)) =>
              /\ e.ev # "attempt"
              /\ (e.ev = "call" /\ j < Len(trace)) =>
                    trace[j + 1].ev = "loop" /\ trace[j + 1].outcome = "invalid"
              /\ (e.ev = "loop") =>
                    /\ e.outcome = "invalid"
                    /\ j < Len(trace) =>
                          /\ trace[j + 1].ev \in {"skip", "retry", "raise"}
                          /\ trace[j + 1].path = e.path

\* the step carries fields of a conditional, of a loop
CarriesConditional(step) ==
    step.condition.present \/ step.then_steps # << >> \/ step.else_steps # << >>
CarriesLoop(step) == step.loop_range # << >> \/ step.loop_steps # << >>

\* C24: a step runs as one shape.  A step that carries conditional or loop
\* fields is never attempted as an action, and a step that carries both is
\* never run as a loop.
C24_OneShape ==
    \A j \in Events :
        LET e == trace[j]
        IN  /\ e.ev = "attempt" =>
                  ~CarriesConditional(e.step) /\ ~CarriesLoop(e.step)
            /\ e.ev = "loop" => ~CarriesConditional(e.step)

(* ------------------------- errors of body steps ------------------------ *)

\* the call of the step that encloses the step of entry j
EnclosingCall(j) ==
    CHOOSE k \in 1..j :
        /\ trace[k].ev = "call" /\ trace[k].path = Parent(trace[j].path)
        /\ \A m \in (k + 1)..j :
              ~(trace[m].ev = "call" /\ trace[m].path = trace[k].path)

\* entry j: a body step raised into an enclosing step that says skip
RaisedIntoSkip(j) ==
    /\ trace[j].ev = "raise" /\ Len(trace[j].path) >= 2
    /\ trace[EnclosingCall(j)].step.on_error = "skip"

\* C25: an error a body step raises is handled by the policy of the
\* enclosing loop or conditional.  When that policy is skip, the entry after
\* the raise is the skip of the enclosing step, which counts it once; the
\* entry after that, if any, is not in the enclosing step (no further body
\* step, no further iteration): it is the call of the enclosing step's next
\* sibling, or the body the enclosing step sits in is through.
C25_BodyErrorSkipped ==
    \A j \in Events :
        (RaisedIntoSkip(j) /\ j < Len(trace)) =>
            LET e == trace[j]
                s == trace[j + 1]
            IN  /\ s.ev = "skip" /\ s.path = Parent(e.path)
                /\ s.sc = e.sc + 1
                /\ j + 1 < Len(trace) =>
                      LET n == trace[j + 2]
                      IN  \/ /\ n.ev = "call" /\ n.path = NextSibling(s.path)
                              /\ n.sc = s.sc
                          \/ /\ n.ev \in {"complete", "loop"}
                              /\ n.path = Parent(s.path)
                /\ (j + 1 = Len(trace) /\ Done) =>
                      /\ result[1].success /\ result[1].steps_completed = s.sc
                      /\ Len(s.path) = 1

\* a loop with more iterations and more body steps to go was skipped at a
\* body error, and its next sibling was called
C25_Witness ==
    \E j \in Events :
        /\ RaisedIntoSkip(j) /\ j + 1 < Len(trace)
        /\ trace[j + 2].ev = "call" /\ trace[j + 2].path = NextSibling(Parent(trace[j].path))
        /\ LET c == trace[EnclosingCall(j)]
           IN  /\ IsLoop(c.step) /\ Len(c.step.loop_range) = 2
               /\ Get(variables, LoopVariable(c.step)).n < c.step.loop_range[2]

(* ------------------------- retries that succeed ------------------------ *)

\* entry j: an action step with on_error = "retry" returned after it had
\* failed at least once
RetriedAndReturned(j) ==
    /\ trace[j].ev = "attempt" /\ trace[j].outcome = "returned"
    /\ trace[j].step.on_error = "retry"
    /\ FailedSince(j) # {}

\* C26: an action step with on_error = "retry" that fails r times,
\* 1 <= r <= max_retry, and then returns: steps_completed is one more than at
\* its call, the failed attempts wrote nothing, its save_as variable holds
\* the value the last attempt returned, no error is in flight, and the entry
\* after it is the call of the next step or the end of the enclosing body;
\* a run that ends there reports success.
C26_RetryThenSuccess ==
    /\ [](\A j \in Events :
            RetriedAndReturned(j) =>
                LET e == trace[j]
                    r == Cardinality(FailedSince(j))
                IN  /\ 1 <= r /\ r <= MaxRetry(e.step) /\ r = e.retry
                    /\ Cardinality(AttemptsSince(j)) = r + 1
                    /\ e.sc = trace[CallOf(j)].sc + 1
                    /\ j = Len(trace) =>
                          /\ exc = << >>
                          /\ steps_completed = e.sc
                          /\ e.step.save_as # << >> =>
                                /\ Get(variables, e.step.save_as) = e.val
                                /\ Get(executor_variables, e.step.save_as) = e.val
                          /\ Done => result[1].success /\ result[1].error = << >>
                    /\ j < Len(trace) =>
                          \/ trace[j + 1].ev = "call"
                               /\ trace[j + 1].path = NextSibling(e.path)
                          \/ trace[j + 1].ev \in {"complete", "loop"}
                               /\ trace[j + 1].path = Parent(e.path))
    /\ [][(Appended /\ Failed(Last(trace'))) =>
             UNCHANGED <<variables, executor_variables, steps_completed>>]_vars

\* a step that saves its result failed twice, returned at the third attempt,
\* and the next step was called
C26_Witness ==
    \E j \in Events :
        /\ RetriedAndReturned(j) /\ Cardinality(FailedSince(j)) = 2
        /\ trace[j].step.save_as # << >>
        /\ j < Len(trace) /\ trace[j + 1].ev = "call"

(* ---------------------------- the two stores --------------------------- *)

\* C27: from the merge of execute_script on, at every dispatch and in the
\* result, the engine's store and the executor's store map the same names to
\* the same values, whether they are one dict or two.
C27_StoresAgree ==
    pc \in {"running", "done"} =>
        Mapping(variables) = Mapping(executor_variables)

\* the stores are two dicts (the run began with no variables); a loop
\* variable and a saved result have been written, and an action step is
\* about to be dispatched
C27_Witness ==
    /\ pc = "running" /\ ~aliased /\ exc = << >>
    /\ Top.at = "try" /\ IsAction(Top.step)
    /\ \E j \in Events : trace[j].ev = "loop" /\ trace[j].outcome = "iteration"
    /\ \E j \in Events : /\ trace[j].ev = "attempt" /\ trace[j].outcome = "returned"
                          /\ trace[j].step.save_as # << >>
    /\ Len(variables) >= 2

(* --------------------------- retries of loops -------------------------- *)

\* entry j: a body step raised into a loop over [start, end] that is retried
LoopRetried(j) ==
    /\ trace[j].ev = "retry" /\ IsLoop(trace[j].step)
    /\ Len(trace[j].step.loop_range) = 2
    /\ j > 1 /\ trace[j - 1].ev = "raise" /\ Parent(trace[j - 1].path) = trace[j].path

\* the iteration the loop of entry j was in
IterationAt(j) ==
    LET c == {m \in 1..j : trace[m].ev = "loop" /\ trace[m].path = trace[j].path}
    IN  trace[CHOOSE m \in c : \A n \in c : n <= m].val.n

\* C28: when a body step fails and the loop is retried, the loop is run again
\* from its start bound, whatever iteration failed: the entry after the retry
\* is the loop's first iteration, with the loop variable at the start bound
\* in both stores, then the call of the first body step; steps_completed is
\* not taken back, so what earlier iterations counted stays counted and is
\* counted again.
C28_RetryRestartsLoop ==
    \A j \in Events :
        LoopRetried(j) =>
            LET e == trace[j]
                start == e.step.loop_range[1]
            IN  /\ e.sc = trace[j - 1].sc
                /\ e.sc >= trace[CallOf(j)].sc + (IterationAt(j) - start)
                /\ j = Len(trace) => steps_completed = e.sc
                /\ j < Len(trace) =>
                      LET l == trace[j + 1]
                      IN  /\ l.ev = "loop" /\ l.outcome = "iteration"
                          /\ l.path = e.path /\ l.retry = e.retry + 1
                          /\ l.val = IntV(start) /\ l.sc = e.sc
                          /\ j + 1 = Len(trace) =>
                                /\ Get(variables, LoopVariable(e.step)) = IntV(start)
                                /\ Get(executor_variables, LoopVariable(e.step)) = IntV(start)
                /\ j + 1 < Len(trace) =>
                      /\ trace[j + 2].ev = "call"
                      /\ trace[j + 2].path = Append(e.path, <<3, 1>>)

\* a loop of action steps failed in an iteration after its first, was
\* retried and completed: it added more to steps_completed than the one of
\* the loop and one per body step of each iteration
C28_Witness ==
    \E j \in Events : \E m \in Events :
        /\ LoopRetried(j) /\ IterationAt(j) > trace[j].step.loop_range[1]
        /\ m > j /\ trace[m].ev = "complete" /\ trace[m].path = trace[j].path
        /\ AllActions(trace[j].step.loop_steps)
        /\ LET r == trace[j].step.loop_range
           IN  trace[m].sc - trace[CallOf(j)].sc
                   > 1 + (r[2] - r[1] + 1) * Len(trace[j].step.loop_steps)
        /\ Done /\ result[1].success

(* ----------------------------- termination ----------------------------- *)

\* the retries one invocation of the step can make: max_retry as written
\* when it is positive, none when it is negative, three when it is 0 or absent
RetryBound(step) ==
    IF step.max_retry = << >> THEN 3
    ELSE IF step.max_retry[1] = 0 THEN 3
    ELSE IF step.max_retry[1] < 0 THEN 0
    ELSE step.max_retry[1]

\* C29: every run ends: execute_script returns a result.  One invocation of
\* a step is retried at most RetryBound times, so an action step is attempted
\* at most 1 + RetryBound times per call, and a step with on_error = "retry"
\* raises only when that many attempts have failed.
C29_Terminates ==
    /\ <>(Done /\ Len(result) = 1)
    /\ [](\A j \in Events :
            LET e == trace[j]
            IN  /\ e.retry <= RetryBound(e.step)
                /\ (e.ev = "attempt") =>
                      Cardinality(AttemptsSince(j)) <= 1 + RetryBound(e.step)
                /\ (e.ev = "raise" /\ e.step.on_error = "retry") =>
                      e.retry = RetryBound(e.step)
                /\ (e.ev = "raise" /\ e.step.on_error = "retry" /\ IsAction(e.step)) =>
                      Cardinality(AttemptsSince(j)) = 1 + RetryBound(e.step))

\* a run returned in which a step with max_retry = 0 or -1 raised after the
\* attempts its bound allows (four, one)
C29_Witness ==
    /\ Done /\ Len(result) = 1
    /\ \E j \in Events :
          /\ trace[j].ev = "raise" /\ trace[j].step.on_error = "retry"
          /\ trace[j].step.max_retry \in {<<0>>, <<0 - 1>>}
          /\ Cardinality(AttemptsSince(j)) = 1 + RetryBound(trace[j].step)

(* ------------------------------- sessions ------------------------------ *)

\* C30: a session close_session has closed stays CLOSED until it is removed:
\* every id closed and not removed since is in the manager with status
\* CLOSED, and no operation reports it as ACTIVE.
C30_ClosedStaysClosed ==
    \A id \in closed_sessions :
        /\ id \in DOMAIN sessions
        /\ sessions[id].status = CLOSED
        /\ <<id, ACTIVE>> \notin reported

====
